---- MODULE Spec2Model ----
(***************************************************************************)
(* A model of the RESP decoder and command interpreter of                  *)
(* codecrafters-redis-rust (src/src/parser.rs, src/src/main.rs).           *)
(*                                                                         *)
(* Bytes are integers 0..255, strings and buffers are sequences of bytes.  *)
(* Buffer positions are 0-based as in the source: At(buf, i) is buf[i].    *)
(***************************************************************************)
EXTENDS Integers, Sequences, FiniteSets, TLC

\* ------------------------------------------------------------------ bytes

CR == 13
LF == 10
STAR == 42
DOLLAR == 36
PLUS == 43
MINUS == 45
COLON == 58
ZERO == 48

At(buf, i) == buf[i + 1]

\* &buf[lo..hi]
as_slice(buf, lo, hi) == SubSeq(buf, lo + 1, hi)

IsDigit(b) == b \in ZERO..(ZERO + 9)

\* std::str::from_utf8 succeeds: the bytes are well-formed UTF-8.
IsCont(b) == b \in 128..191

RECURSIVE IsUtf8(_)
IsUtf8(s) ==
    IF s = <<>> THEN TRUE
    ELSE LET b == Head(s)
             n == Len(s)
         IN  IF b < 128 THEN IsUtf8(Tail(s))
             ELSE IF b \in 194..223
                  THEN n >= 2 /\ IsCont(s[2]) /\ IsUtf8(SubSeq(s, 3, n))
             ELSE IF b \in 224..239
                  THEN /\ n >= 3
                       /\ IsCont(s[2])
                       /\ (b = 224 => s[2] >= 160)
                       /\ (b = 237 => s[2] <= 159)
                       /\ IsCont(s[3])
                       /\ IsUtf8(SubSeq(s, 4, n))
             ELSE IF b \in 240..244
                  THEN /\ n >= 4
                       /\ IsCont(s[2])
                       /\ (b = 240 => s[2] >= 144)
                       /\ (b = 244 => s[2] <= 143)
                       /\ IsCont(s[3])
                       /\ IsCont(s[4])
                       /\ IsUtf8(SubSeq(s, 5, n))
             ELSE FALSE

\* ASCII part of str::to_lowercase
LowerByte(b) == IF b \in 65..90 THEN b + 32 ELSE b

to_lowercase(s) == [i \in 1..Len(s) |-> LowerByte(s[i])]

\* Decimal digits of a natural number, as format!("{}", n) prints them.
RECURSIVE FmtNat(_)
FmtNat(n) == IF n < 10 THEN <<ZERO + n>> ELSE FmtNat(n \div 10) \o <<ZERO + (n % 10)>>

\* Value of a non-empty run of decimal digits.
RECURSIVE DigitsVal(_)
DigitsVal(s) ==
    IF Len(s) = 1 THEN s[1] - ZERO
    ELSE 10 * DigitsVal(SubSeq(s, 1, Len(s) - 1)) + (s[Len(s)] - ZERO)

AllDigits(s) == s /= <<>> /\ \A i \in 1..Len(s) : IsDigit(s[i])

\* str::parse::<i64>: an optional sign, then one or more decimal digits.
\* (Digit runs in the model are far shorter than 19 digits: no i64 overflow.)
ParseI64(s) ==
    IF s /= <<>> /\ s[1] \in {PLUS, MINUS}
    THEN LET d == Tail(s)
         IN  IF AllDigits(d)
             THEN [ok |-> TRUE, v |-> IF s[1] = MINUS THEN 0 - DigitsVal(d) ELSE DigitsVal(d)]
             ELSE [ok |-> FALSE, v |-> 0]
    ELSE IF AllDigits(s) THEN [ok |-> TRUE, v |-> DigitsVal(s)]
    ELSE [ok |-> FALSE, v |-> 0]

\* str::parse::<u64>: an optional '+', then one or more decimal digits.
ParseU64(s) ==
    IF s /= <<>> /\ s[1] = PLUS
    THEN IF AllDigits(Tail(s)) THEN [ok |-> TRUE, v |-> DigitsVal(Tail(s))]
         ELSE [ok |-> FALSE, v |-> 0]
    ELSE IF AllDigits(s) THEN [ok |-> TRUE, v |-> DigitsVal(s)]
    ELSE [ok |-> FALSE, v |-> 0]

\* ----------------------------------------------------------- RedisValue

VString(s) == [t |-> "String", s |-> s]
VError(s) == [t |-> "Error", s |-> s]
VInt(i) == [t |-> "Int", i |-> i]
VArray(a) == [t |-> "Array", a |-> a]
NullArray == [t |-> "NullArray"]
NullBulkString == [t |-> "NullBulkString"]

\* ------------------------------------------------------------- RESPError

UnexpectedEnd == [e |-> "UnexpectedEnd"]
UnknownStartingByte == [e |-> "UnknownStartingByte"]
IOError == [e |-> "IOError"]
ParsingError == [e |-> "ParsingError"]
IntParseFailure == [e |-> "IntParseFailure"]
BadBulkStringSize(n) == [e |-> "BadBulkStringSize", n |-> n]
BadArraySize(n) == [e |-> "BadArraySize", n |-> n]
InvalidCommand == [e |-> "InvalidCommand"]
InvalidArguments == [e |-> "InvalidArguments"]

\* ----------------------------------------------------------- RedisResult
\* Ok(None), Ok(Some((pos, val))), Err(e); Panicked is a call that did not
\* return (an index out of bounds, a failed unwrap).

OkNone == [k |-> "None"]
OkSome(pos, val) == [k |-> "Some", pos |-> pos, val |-> val]
Err(e) == [k |-> "Err", err |-> e]
Panicked(why) == [k |-> "Panic", why |-> why]

\* ---------------------------------------------------------------- parser

\* The while loop of word: the index of the first '\r' at or after `end`,
\* or -1 when the buffer ends first.
RECURSIVE WordEnd(_, _)
WordEnd(buf, end) ==
    IF At(buf, end) = CR THEN end
    ELSE IF Len(buf) < (end + 1) + 1 THEN 0 - 1
    ELSE WordEnd(buf, end + 1)

word(buf, pos) ==
    IF Len(buf) <= pos THEN [some |-> FALSE, pos |-> 0, lo |-> 0, hi |-> 0]
    ELSE LET end == WordEnd(buf, pos)
         IN  IF end < 0 THEN [some |-> FALSE, pos |-> 0, lo |-> 0, hi |-> 0]
             ELSE [some |-> TRUE, pos |-> end + 2, lo |-> pos, hi |-> end]

simple_string(buf, pos) ==
    LET w == word(buf, pos)
    IN  IF ~w.some THEN OkNone
        ELSE IF ~IsUtf8(as_slice(buf, w.lo, w.hi)) THEN Panicked("from_utf8 unwrap")
        ELSE OkSome(w.pos, VString(as_slice(buf, w.lo, w.hi)))

error(buf, pos) ==
    LET w == word(buf, pos)
    IN  IF ~w.some THEN OkNone
        ELSE IF ~IsUtf8(as_slice(buf, w.lo, w.hi)) THEN Panicked("from_utf8 unwrap")
        ELSE OkSome(w.pos, VError(as_slice(buf, w.lo, w.hi)))

\* Result<Option<(usize, i64)>, RESPError>; the value is in field val.
int(buf, pos) ==
    LET w == word(buf, pos)
    IN  IF ~w.some THEN OkNone
        ELSE LET s == as_slice(buf, w.lo, w.hi)
             IN  IF ~IsUtf8(s) THEN Err(IntParseFailure)
                 ELSE IF ~ParseI64(s).ok THEN Err(IntParseFailure)
                 ELSE OkSome(w.pos, ParseI64(s).v)

redis_int(buf, pos) ==
    LET r == int(buf, pos)
    IN  IF r.k = "Err" THEN r
        ELSE IF r.k = "Some" THEN OkSome(r.pos, VInt(r.val))
        ELSE OkNone

bulk_stringNullBelow(buf, pos) ==
    LET r == int(buf, pos)
    IN  IF r.k = "Err" THEN r
        ELSE IF r.k = "None" THEN OkNone
        ELSE IF r.val < 0 THEN OkSome(r.pos, NullBulkString)
        ELSE LET total_size == r.pos + r.val
             IN  IF Len(buf) < total_size + 2 THEN OkNone
                 ELSE simple_string(buf, r.pos)

bulk_string(buf, pos) ==
    LET r == int(buf, pos)
    IN  IF r.k = "Err" THEN r
        ELSE IF r.k = "None" THEN OkNone
        ELSE IF r.val = 0 - 1 THEN OkSome(r.pos, NullBulkString)
        ELSE IF r.val >= 0
             THEN LET total_size == r.pos + r.val
                  IN  IF Len(buf) < total_size + 2 THEN OkNone
                      ELSE simple_string(buf, r.pos)
        ELSE Err(BadBulkStringSize(r.val))

\* The position array returns for a complete array: `pos` of the enclosing
\* match arm, the position after the header line (the loop's own `pos`
\* shadows it only inside the loop body).
ArrayEndPos(header_pos, curr_pos) == header_pos

RECURSIVE parse(_, _), ArrayLoop(_, _, _, _, _)

\* The for loop of array: `left` elements still to decode from curr_pos.
\* (Vec::with_capacity(arr_size) is not modelled: the counts the model's
\* buffers declare are small.)
ArrayLoop(buf, header_pos, curr_pos, left, res) ==
    IF left = 0 THEN OkSome(ArrayEndPos(header_pos, curr_pos), VArray(res))
    ELSE LET r == parse(buf, curr_pos)
         IN  IF r.k \in {"Err", "Panic"} THEN r
             ELSE IF r.k = "None" THEN Err(UnexpectedEnd)
             ELSE ArrayLoop(buf, header_pos, r.pos, left - 1, Append(res, r.val))

array(buf, pos) ==
    LET r == int(buf, pos)
    IN  IF r.k = "Err" THEN r
        ELSE IF r.k = "None" THEN OkNone
        ELSE IF r.val = 0 - 1 THEN OkSome(r.pos, NullArray)
        ELSE IF r.val >= 0 THEN ArrayLoop(buf, r.pos, r.pos, r.val, <<>>)
        ELSE Err(BadArraySize(r.val))

parse(buf, pos) ==
    IF buf = <<>> THEN OkNone
    ELSE IF pos >= Len(buf) THEN Panicked("index out of bounds")
    ELSE LET b == At(buf, pos)
         IN  IF b = STAR THEN array(buf, pos + 1)
             ELSE IF b = DOLLAR THEN bulk_string(buf, pos + 1)
             ELSE IF b = PLUS THEN simple_string(buf, pos + 1)
             ELSE IF b = MINUS THEN error(buf, pos + 1)
             ELSE IF b = COLON THEN redis_int(buf, pos + 1)
             ELSE Err(UnknownStartingByte)

\* ------------------------------------------------------- reply framing

CRLF == <<CR, LF>>

\* const NULL: b"$-1\r\n"
NULL == <<DOLLAR, MINUS, ZERO + 1>> \o CRLF

\* const OK: b"+OK\r\n"
OK == <<PLUS, 79, 75>> \o CRLF

\* b"+PONG\r\n"
PONG == <<PLUS, 80, 79, 78, 71>> \o CRLF

\* format!("${}\r\n{}\r\n", len, str)
BulkFrame(str) == <<DOLLAR>> \o FmtNat(Len(str)) \o CRLF \o str \o CRLF

\* The command and flag names execute matches against, in bytes.
ping == <<112, 105, 110, 103>>
echo == <<101, 99, 104, 111>>
get == <<103, 101, 116>>
set == <<115, 101, 116>>
px == <<112, 120>>

\* ---------------------------------------------------------------- store
\* KVStore = HashMap<String, (String, Option<Expiry>)>: a function from the
\* keys present to [value, expiry]; Expiry(Instant, Duration) is
\* [start, duration], both in milliseconds of the model's clock.

NoExpiry == [some |-> FALSE, start |-> 0, duration |-> 0]
Expiry(start, duration) == [some |-> TRUE, start |-> start, duration |-> duration]

\* HashMap::insert
insertAlone(store, key, entry) == [k \in {key} |-> entry]

insert(store, key, entry) ==
    [k \in DOMAIN store \cup {key} |-> IF k = key THEN entry ELSE store[k]]

\* Duration::from_millis, in the clock's unit
from_millis(ms) == ms

\* start.elapsed() < *duration, read at time t
NotOverdueLate(start, duration, t) == t - start <= duration

NotOverdue(start, duration, t) == t - start < duration

\* -------------------------------------------------------------- execute
\* An outcome of execute: what it returned, the store it left, and the bytes
\* it wrote to the stream. io says whether the stream accepts the write;
\* a refused write_all returns IOError through `?` (the bytes a refused
\* write may have sent before failing are not modelled).

OkUnit == [k |-> "Ok"]

Fail(e, store) == [ret |-> Err(e), store |-> store, written |-> <<>>]

write_all(bytes, store, io) ==
    IF io THEN [ret |-> OkUnit, store |-> store, written |-> bytes]
    ELSE [ret |-> Err(IOError), store |-> store, written |-> <<>>]

IsString(v) == v.t = "String"

ExecEcho(msg, store, io) ==
    IF Len(msg) < 2 THEN Fail(InvalidArguments, store)
    ELSE IF IsString(msg[2]) THEN write_all(BulkFrame(msg[2].s), store, io)
    ELSE [ret |-> OkUnit, store |-> store, written |-> <<>>]

ExecGetEvict(msg, store, t, io) ==
    IF Len(msg) < 2 THEN Fail(InvalidArguments, store)
    ELSE IF ~IsString(msg[2]) THEN Fail(InvalidArguments, store)
    ELSE LET key == msg[2].s
         IN  IF key \notin DOMAIN store THEN write_all(NULL, store, io)
             ELSE IF ~store[key].expiry.some
                  THEN write_all(BulkFrame(store[key].value), store, io)
             ELSE IF NotOverdue(store[key].expiry.start, store[key].expiry.duration, t)
                  THEN write_all(BulkFrame(store[key].value), store, io)
             ELSE write_all(NULL, [k \in DOMAIN store \ {key} |-> store[k]], io)

ExecGet(msg, store, t, io) ==
    IF Len(msg) < 2 THEN Fail(InvalidArguments, store)
    ELSE IF ~IsString(msg[2]) THEN Fail(InvalidArguments, store)
    ELSE LET key == msg[2].s
         IN  IF key \notin DOMAIN store THEN write_all(NULL, store, io)
             ELSE IF ~store[key].expiry.some
                  THEN write_all(BulkFrame(store[key].value), store, io)
             ELSE IF NotOverdue(store[key].expiry.start, store[key].expiry.duration, t)
                  THEN write_all(BulkFrame(store[key].value), store, io)
             ELSE write_all(NULL, store, io)

\* "set" without the option branch: store.insert(key, (value, None))
SetPlainKeepExpiry(store, key, value) ==
    insert(store, key,
           [value |-> value,
            expiry |-> IF key \in DOMAIN store THEN store[key].expiry ELSE NoExpiry])

SetPlain(store, key, value) == insert(store, key, [value |-> value, expiry |-> NoExpiry])

\* match flag.to_lowercase(): "px" inserts with an expiry and writes OK,
\* any other flag is InvalidArguments.
SetFlagEager(store, key, value, flag, opt, t, io) ==
    IF to_lowercase(flag) = px
    THEN write_all(OK, insert(store, key,
                              [value |-> value,
                               expiry |-> Expiry(t, from_millis(opt))]), io)
    ELSE Fail(InvalidArguments,
              insert(store, key, [value |-> value, expiry |-> NoExpiry]))

SetFlag(store, key, value, flag, opt, t, io) ==
    IF to_lowercase(flag) = px
    THEN write_all(OK, insert(store, key,
                              [value |-> value,
                               expiry |-> Expiry(t, from_millis(opt))]), io)
    ELSE Fail(InvalidArguments, store)

ExecSet(msg, store, t, io) ==
    IF Len(msg) < 3 THEN Fail(InvalidArguments, store)
    ELSE IF ~IsString(msg[2]) THEN Fail(InvalidArguments, store)
    ELSE IF ~IsString(msg[3]) THEN Fail(InvalidArguments, store)
    ELSE IF Len(msg) > 4
         THEN IF ~IsString(msg[4]) THEN Fail(InvalidArguments, store)
              ELSE IF ~IsString(msg[5]) THEN Fail(InvalidArguments, store)
              ELSE IF ~ParseU64(msg[5].s).ok THEN Fail(ParsingError, store)
              ELSE SetFlag(store, msg[2].s, msg[3].s, msg[4].s,
                           ParseU64(msg[5].s).v, t, io)
    ELSE write_all(OK, SetPlain(store, msg[2].s, msg[3].s), io)

execute(msg, store, t, io) ==
    IF msg = <<>> THEN Fail(UnknownStartingByte, store)
    ELSE IF ~IsString(msg[1]) THEN Fail(InvalidCommand, store)
    ELSE LET cmd == to_lowercase(msg[1].s)
         IN  IF cmd = ping THEN write_all(PONG, store, io)
             ELSE IF cmd = echo THEN ExecEcho(msg, store, io)
             ELSE IF cmd = get THEN ExecGet(msg, store, t, io)
             ELSE IF cmd = set THEN ExecSet(msg, store, t, io)
             ELSE Fail(InvalidCommand, store)

\* ------------------------------------------------------------ main.rs
\* main.rs carries its own decoder and dispatcher. Its word, int and
\* redis_int are the text of parser.rs; the functions that differ follow.

\* RedisValue::String holds Bytes here: no UTF-8 check.
main_simple_string(buf, pos) ==
    LET w == word(buf, pos)
    IN  IF ~w.some THEN OkNone
        ELSE OkSome(w.pos, VString(as_slice(buf, w.lo, w.hi)))

main_error(buf, pos) ==
    LET w == word(buf, pos)
    IN  IF ~w.some THEN OkNone
        ELSE OkSome(w.pos, VError(as_slice(buf, w.lo, w.hi)))

main_bulk_string(buf, pos) ==
    LET r == int(buf, pos)
    IN  IF r.k = "Err" THEN r
        ELSE IF r.k = "None" THEN OkNone
        ELSE IF r.val = 0 - 1 THEN OkSome(r.pos, NullBulkString)
        ELSE IF r.val >= 0
             THEN LET total_size == r.pos + r.val
                  IN  IF Len(buf) < total_size + 2 THEN OkNone
                      ELSE main_simple_string(buf, r.pos)
        ELSE Err(BadBulkStringSize(r.val))

\* Bytes::slice(begin..)
slice(buf, begin) == SubSeq(buf, begin + 1, Len(buf))

RECURSIVE main_parse(_), main_ArrayLoop(_, _, _, _, _)

\* The for loop of array in main.rs: each element is decoded from the slice
\* of buf that starts at next_pos, and next_pos becomes the position parse
\* returned, which counts from the start of that slice. The array's own
\* result carries the position after the header.
main_ArrayLoop(buf, header_pos, next_pos, left, res) ==
    IF left = 0 THEN OkSome(header_pos, VArray(res))
    ELSE IF next_pos > Len(buf) THEN Panicked("slice out of range")
    ELSE LET r == main_parse(slice(buf, next_pos))
         IN  IF r.k \in {"Err", "Panic"} THEN r
             ELSE IF r.k = "None" THEN Err(UnexpectedEnd)
             ELSE main_ArrayLoop(buf, header_pos, r.pos, left - 1, Append(res, r.val))

main_array(buf, pos) ==
    LET r == int(buf, pos)
    IN  IF r.k = "Err" THEN r
        ELSE IF r.k = "None" THEN OkNone
        ELSE IF r.val = 0 - 1 THEN OkSome(r.pos, NullArray)
        ELSE IF r.val >= 0 THEN main_ArrayLoop(buf, r.pos, r.pos, r.val, <<>>)
        ELSE Err(BadArraySize(r.val))

main_parse(buf) ==
    IF buf = <<>> THEN OkNone
    ELSE LET b == At(buf, 0)
         IN  IF b = STAR THEN main_array(buf, 1)
             ELSE IF b = DOLLAR THEN main_bulk_string(buf, 1)
             ELSE IF b = PLUS THEN main_simple_string(buf, 1)
             ELSE IF b = MINUS THEN main_error(buf, 1)
             ELSE IF b = COLON THEN redis_int(buf, 1)
             ELSE Err(UnknownStartingByte)

\* enum RedisCommand, as the Ok result of command
PING == [k |-> "Cmd", cmd |-> "PING"]
ECHO == [k |-> "Cmd", cmd |-> "ECHO"]

\* fn command: the name is compared with "ping" and "echo" as it stands.
command(arr) ==
    IF arr = <<>> THEN Err(InvalidCommand)
    ELSE IF ~IsString(arr[1]) THEN Err(InvalidCommand)
    ELSE IF ~IsUtf8(arr[1].s) THEN Panicked("from_utf8 unwrap")
    ELSE IF arr[1].s = ping THEN PING
    ELSE IF arr[1].s = echo THEN ECHO
    ELSE Err(InvalidCommand)

\* stream.write_all(bytes)? of main.rs: the result and the bytes written.
stream_write(bytes, io) ==
    IF io THEN [ret |-> OkUnit, written |-> bytes]
    ELSE [ret |-> Err(IOError), written |-> <<>>]

\* fn run: args are the elements after the name; ECHO takes args.get(1),
\* the second of them.
run(cmd, args, io) ==
    IF cmd = PING THEN stream_write(PONG, io)
    ELSE IF args = <<>> THEN [ret |-> Err(InvalidCommand), written |-> <<>>]
    ELSE IF Len(args) < 2 THEN [ret |-> Panicked("unwrap on None"), written |-> <<>>]
    ELSE IF ~IsString(args[2]) THEN [ret |-> OkUnit, written |-> <<>>]
    ELSE IF ~IsUtf8(args[2].s) THEN [ret |-> Panicked("from_utf8 unwrap"), written |-> <<>>]
    ELSE stream_write(args[2].s \o CRLF, io)

\* The handler is in its loop.
Running == [k |-> "Running"]

\* Read::read on a slice of `room` bytes: the numbers of bytes one call can
\* return when `pending` bytes wait in the socket. A slice of no bytes
\* takes no byte, and Ok(0) is also the end of the stream.
stream_read(room, pending) ==
    IF room = 0 \/ pending = 0 THEN {0}
    ELSE 1..(IF room < pending THEN room ELSE pending)

\* The body of handle_connection's loop after a read of n bytes left b in
\* buf: what the handler is doing afterwards and what it wrote.
LoopBody(b, n, io) ==
    IF n = 0 THEN [conn |-> OkUnit, written |-> <<>>]
    ELSE LET r == main_parse(b)
         IN  IF r.k \in {"Err", "Panic"} THEN [conn |-> r, written |-> <<>>]
             ELSE IF r.k = "Some" /\ r.val.t = "Array"
                  THEN LET c == command(r.val.a)
                       IN  IF c.k /= "Cmd" THEN [conn |-> c, written |-> <<>>]
                           ELSE LET o == run(c, Tail(r.val.a), io)
                                IN  [conn |-> IF o.ret = OkUnit THEN Running ELSE o.ret,
                                     written |-> o.written]
             ELSE [conn |-> Err(InvalidCommand), written |-> <<>>]

\* ------------------------------------------------------ wire encoding
\* The encoding the decoder is read against: the frames of spec section 6.
\* A String is framed as a bulk string, as execute frames its replies.

FmtInt(i) == IF i < 0 THEN <<MINUS>> \o FmtNat(0 - i) ELSE FmtNat(i)

RECURSIVE Encode(_), EncodeAll(_)
Encode(v) ==
    IF v.t = "String" THEN BulkFrame(v.s)
    ELSE IF v.t = "Error" THEN <<MINUS>> \o v.s \o CRLF
    ELSE IF v.t = "Int" THEN <<COLON>> \o FmtInt(v.i) \o CRLF
    ELSE IF v.t = "Array" THEN <<STAR>> \o FmtNat(Len(v.a)) \o CRLF \o EncodeAll(v.a)
    ELSE IF v.t = "NullArray" THEN <<STAR, MINUS, ZERO + 1>> \o CRLF
    ELSE NULL

EncodeAll(a) == IF a = <<>> THEN <<>> ELSE Encode(Head(a)) \o EncodeAll(Tail(a))

\* ----------------------------------------------------------- bounds
\* Longest raw byte buffer, most elements of a list, last clock reading and
\* largest PX value the model draws.
MaxRawLen == 4
MaxElems == 2
MaxTime == 3
MaxPx == 2
MaxDeclared == 3
MaxCmds == 2

SeqsUpTo(S, n) == UNION {[1..m -> S] : m \in 0..n}

\* ---------------------------------------------------- decoder inputs

Alphabet == {STAR, DOLLAR, PLUS, MINUS, COLON, ZERO, ZERO + 1, ZERO + 2, 97, CR, LF, 255}

RawBufs == SeqsUpTo(Alphabet, MaxRawLen)

Leaves ==
    {VString(<<>>), VString(<<97>>), VString(<<97, CR, 98>>), VError(<<101>>),
     VInt(1), VInt(0 - 2), NullArray, NullBulkString}

NestLeaves == {VInt(1), VString(<<97>>)}

FlatLists == {VArray(a) : a \in SeqsUpTo(Leaves, MaxElems)}

InnerLists == {VArray(a) : a \in SeqsUpTo(NestLeaves, MaxElems)}

NestedLists == {VArray(a) : a \in SeqsUpTo(NestLeaves \cup InnerLists, MaxElems)}

Values == Leaves \cup FlatLists \cup NestedLists

\* One byte a client may send after a complete message.
Trailers == {<<>>, <<COLON>>}

\* The header line of an array (marker *) or a bulk string (marker $) that
\* declares length n.
Header(marker, n) == <<marker>> \o FmtInt(n) \o CRLF

\* Buffers that open with a header declaring a length of at most 0.
SizedBufs ==
    {Header(mk, n) \o t : mk \in {STAR, DOLLAR}, n \in (0 - MaxDeclared)..0,
                          t \in {<<>>, CRLF, <<COLON>>}}

\* ---------------------------------------------------- command inputs

S(bytes) == VString(bytes)

KeyK == <<107>>
KeyJ == <<106>>
Keys == {KeyK, KeyJ}
Vals == {<<118>>, <<119>>}
PxArgs == {FmtNat(n) : n \in 0..MaxPx}

\* Values of the variants that are not String.
NonStrings == {VInt(1), VArray(<<>>), NullBulkString, NullArray, VError(<<101>>)}

\* Commands against the store as the clock runs: every SET and GET of one
\* key, a plain SET and a GET of a second key, and commands that fail.
StoreMsgs ==
    {<<S(ping)>>, <<S(echo), S(KeyK)>>}
    \cup {<<S(get), S(k)>> : k \in Keys}
    \cup {<<S(set), S(KeyK), S(v)>> : v \in Vals}
    \cup {<<S(set), S(KeyK), S(v), S(px), S(n)>> : v \in Vals, n \in PxArgs}
    \cup {<<S(set), S(KeyJ), S(<<118>>)>>}
    \cup {<<>>, <<S(<<110, 111, 112, 101>>)>>, <<S(get)>>, <<S(set), S(KeyK)>>,
          <<S(set), S(KeyK), S(<<119>>), S(px), S(<<120>>)>>,
          <<S(set), S(KeyK), S(<<119>>), S(<<120, 120>>), S(<<ZERO + 1>>)>>,
          <<S(set), S(KeyK), VInt(1)>>,
          <<S(set), S(KeyK), S(<<119>>), S(px)>>,
          <<VInt(1)>>}

\* Letter-case variants of the command and flag names.
PingNames == {ping, <<80, 105, 78, 103>>}
EchoNames == {echo, <<69, 67, 72, 79>>}
GetNames == {get, <<71, 101, 84>>}
SetNames == {set, <<83, 69, 84>>}
FlagNames == {px, <<80, 88>>, <<120, 120>>}

\* Commands with the arity the spec gives them.
WellFormed ==
    {<<S(c)>> : c \in PingNames}
    \cup {<<S(c), S(KeyK)>> : c \in EchoNames \cup GetNames}
    \cup {<<S(c), S(KeyK), S(v)>> : c \in SetNames, v \in Vals}
    \cup {<<S(c), S(KeyK), S(<<118>>), S(f), S(n)>> :
            c \in SetNames, f \in FlagNames, n \in PxArgs}

\* A SET whose PX value is no number.
BadNumbers == {<<S(c), S(KeyK), S(<<118>>), S(f), S(<<120>>)>> : c \in SetNames, f \in FlagNames}

\* The same with trailing arguments missing, or one argument too many.
Shortened == UNION {{SubSeq(m, 1, n) : n \in 0..(Len(m) - 1)} : m \in WellFormed}

Lengthened == {Append(m, S(<<122>>)) : m \in WellFormed}

BaseMsgs ==
    {<<S(ping)>>, <<S(echo), S(KeyK)>>, <<S(get), S(KeyK)>>,
     <<S(set), S(KeyK), S(<<118>>)>>,
     <<S(set), S(KeyK), S(<<118>>), S(px), S(<<ZERO + 1>>)>>}

\* A base command with one element replaced by a value that is no String.
Mistyped ==
    UNION {{[m EXCEPT ![i] = x] : i \in 1..Len(m), x \in NonStrings} : m \in BaseMsgs}

UnknownNames == {<<S(<<110, 111, 112, 101>>)>>, <<S(<<>>), S(KeyK)>>}

ArgMsgs ==
    WellFormed \cup BadNumbers \cup Shortened \cup Lengthened \cup Mistyped \cup UnknownNames

\* The complete valid commands a client sends over a connection.
ConnCmds ==
    {<<S(c)>> : c \in PingNames} \cup {<<S(c), S(v)>> : c \in EchoNames, v \in Vals}

\* ----------------------------------------------------------------- state
\* Decoder run: buf is the buffer handed to parse, src the value it was
\* encoded from (if any), res what parse(buf, 0) returned.
\* Interpreter: store is the KVStore, now the clock (ms), and msg, callAt,
\* ret, written describe the latest call of execute: its command array, the
\* clock reading during it, its result and the bytes it wrote to the stream.
\* History: lastSet maps a key to the latest successful SET of it (value,
\* PX option, time, whether the SET it replaced carried PX, whether a GET has
\* replied null since); ioClean says no write has been refused so far.

\* Dispatcher of main.rs: arr is a command array and dispatched what
\* command(arr) returned.
\* Connection: inbox holds the bytes the client wrote that no read has taken
\* yet, cbuf is the handler's buf, outbox the bytes the handler wrote, conn
\* what the handler is doing; sent lists the commands the client has
\* written in full, part is the command it has written a part of, closed
\* says the client has shut its side down, and oneByOne that so far it
\* wrote whole commands only, each after the one before had been read.

VARIABLES buf, src, res, pc, store, now, msg, callAt, ret, written, lastSet, ioClean,
          arr, dispatched, inbox, cbuf, outbox, conn, sent, part, closed, oneByOne

parseVars == <<buf, src, res, pc>>
execVars == <<store, now, msg, callAt, ret, written, lastSet, ioClean>>
dispVars == <<arr, dispatched>>
connVars == <<inbox, cbuf, outbox, conn, sent, part, closed, oneByOne>>
vars == <<buf, src, res, pc, store, now, msg, callAt, ret, written, lastSet, ioClean,
          arr, dispatched, inbox, cbuf, outbox, conn, sent, part, closed, oneByOne>>

NoSrc == [some |-> FALSE, val |-> NullArray]
FromValue(v) == [some |-> TRUE, val |-> v]
NotRun == [k |-> "NotRun"]
NoPx == [some |-> FALSE, ms |-> 0]
Px(ms) == [some |-> TRUE, ms |-> ms]

ParseIdle ==
    /\ buf = <<>>
    /\ src = NoSrc
    /\ res = NotRun
    /\ pc = "idle"

ExecIdle ==
    /\ store = <<>>
    /\ now = 0
    /\ msg = <<>>
    /\ callAt = 0
    /\ ret = NotRun
    /\ written = <<>>
    /\ lastSet = <<>>
    /\ ioClean = TRUE

NoPart == [some |-> FALSE, c |-> <<>>, n |-> 0]
Part(c, n) == [some |-> TRUE, c |-> c, n |-> n]

DispIdle ==
    /\ arr = <<>>
    /\ dispatched = NotRun

\* let mut buf = BytesMut::with_capacity(512): a buffer of length 0.
ConnOpen ==
    /\ inbox = <<>>
    /\ cbuf = <<>>
    /\ outbox = <<>>
    /\ sent = <<>>
    /\ part = NoPart
    /\ closed = FALSE
    /\ oneByOne = TRUE

ConnIdle == ConnOpen /\ conn = NotRun

\* ------------------------------------------------------- decoder runs

InitParse ==
    /\ \/ src = NoSrc /\ buf \in RawBufs \cup SizedBufs
       \/ \E v \in Values :
            /\ src = FromValue(v)
            /\ \/ \E n \in 0..Len(Encode(v)) : buf = SubSeq(Encode(v), 1, n)
               \/ \E t \in Trailers : buf = Encode(v) \o t
    /\ res = NotRun
    /\ pc = "ready"
    /\ ExecIdle
    /\ DispIdle
    /\ ConnIdle

Parse ==
    /\ pc = "ready"
    /\ res' = parse(buf, 0)
    /\ pc' = "parsed"
    /\ UNCHANGED <<buf, src>>
    /\ UNCHANGED execVars
    /\ UNCHANGED dispVars
    /\ UNCHANGED connVars

NextParse == Parse

SpecParse == InitParse /\ [][NextParse]_vars

\* --------------------------------------------------- interpreter runs

\* The command array is a SET that names a key and a value.
IsSet(m) ==
    /\ Len(m) >= 3
    /\ IsString(m[1]) /\ to_lowercase(m[1].s) = set
    /\ IsString(m[2]) /\ IsString(m[3])

\* The command array is a GET that names a key.
IsGet(m) ==
    /\ Len(m) >= 2
    /\ IsString(m[1]) /\ to_lowercase(m[1].s) = get
    /\ IsString(m[2])

\* The PX option a SET carries: a flag and its milliseconds.
PxOf(m) ==
    IF Len(m) >= 5 /\ IsString(m[5]) /\ ParseU64(m[5].s).ok
    THEN Px(ParseU64(m[5].s).v) ELSE NoPx

Execute(m, io) ==
    LET o == execute(m, store, now, io)
        clean == ioClean /\ o.ret /= Err(IOError)
    IN  /\ store' = o.store
        /\ ret' = o.ret
        /\ written' = o.written
        /\ msg' = m
        /\ callAt' = now
        /\ ioClean' = clean
        /\ lastSet' = IF ~clean THEN <<>>
                      ELSE IF o.ret = OkUnit /\ IsSet(m)
                           THEN insert(lastSet, m[2].s,
                                       [val |-> m[3].s, px |-> PxOf(m), at |-> now,
                                        replacedPx |-> /\ m[2].s \in DOMAIN lastSet
                                                       /\ lastSet[m[2].s].px.some,
                                        sawNull |-> FALSE])
                      ELSE IF /\ o.ret = OkUnit /\ IsGet(m) /\ o.written = NULL
                              /\ m[2].s \in DOMAIN lastSet
                           THEN [lastSet EXCEPT ![m[2].s].sawNull = TRUE]
                      ELSE lastSet
        /\ UNCHANGED now
        /\ UNCHANGED parseVars
        /\ UNCHANGED connVars

Tick ==
    /\ now < MaxTime
    /\ now' = now + 1
    /\ UNCHANGED <<store, msg, callAt, ret, written, lastSet, ioClean>>
    /\ UNCHANGED parseVars
    /\ UNCHANGED dispVars
    /\ UNCHANGED connVars

Init == ParseIdle /\ ExecIdle /\ DispIdle /\ ConnIdle

Call == \E m \in StoreMsgs, io \in BOOLEAN : Execute(m, io) /\ UNCHANGED dispVars

Next == Call \/ Tick

Spec == Init /\ [][Next]_vars

\* Argument validation: many shapes of command array, the clock at rest.
CallArgs == \E m \in ArgMsgs, io \in BOOLEAN : Execute(m, io) /\ UNCHANGED dispVars

NextArgs == CallArgs

SpecArgs == Init /\ [][NextArgs]_vars

\* ----------------------------------------------------- dispatcher runs
\* One command array handed to both dispatchers: command of main.rs and
\* execute of parser.rs (on an empty store and a stream that takes writes).

InitDispatch ==
    /\ ParseIdle
    /\ ExecIdle
    /\ ConnIdle
    /\ arr \in ArgMsgs
    /\ dispatched = NotRun

Command ==
    /\ dispatched = NotRun
    /\ dispatched' = command(arr)
    /\ UNCHANGED arr
    /\ UNCHANGED parseVars
    /\ UNCHANGED execVars
    /\ UNCHANGED connVars

ExecuteArr ==
    /\ ret = NotRun
    /\ Execute(arr, TRUE)
    /\ UNCHANGED dispVars

NextDispatch == Command \/ ExecuteArr

SpecDispatch == InitDispatch /\ [][NextDispatch]_vars

\* ----------------------------------------------------- connection runs
\* One client and the handler of its connection. The client writes whole
\* commands or a command in two parts, and may shut its side down; each
\* step of the handler is one turn of handle_connection's loop.

InitConn ==
    /\ ParseIdle
    /\ ExecIdle
    /\ DispIdle
    /\ ConnOpen
    /\ conn = Running

\* A step of the connection leaves the other runs' variables alone.
ConnStep == UNCHANGED <<parseVars, execVars, dispVars>>

SendWhole(c) ==
    /\ ConnStep
    /\ conn = Running
    /\ ~closed
    /\ ~part.some
    /\ Len(sent) < MaxCmds
    /\ inbox' = inbox \o Encode(VArray(c))
    /\ sent' = Append(sent, c)
    /\ oneByOne' = (oneByOne /\ inbox = <<>>)
    /\ UNCHANGED <<cbuf, outbox, conn, part, closed>>

SendPart(c, n) ==
    /\ ConnStep
    /\ conn = Running
    /\ ~closed
    /\ ~part.some
    /\ Len(sent) < MaxCmds
    /\ inbox' = inbox \o SubSeq(Encode(VArray(c)), 1, n)
    /\ part' = Part(c, n)
    /\ oneByOne' = FALSE
    /\ UNCHANGED <<cbuf, outbox, conn, sent, closed>>

SendRest ==
    /\ ConnStep
    /\ conn = Running
    /\ ~closed
    /\ part.some
    /\ inbox' = inbox \o SubSeq(Encode(VArray(part.c)), part.n + 1, Len(Encode(VArray(part.c))))
    /\ sent' = Append(sent, part.c)
    /\ part' = NoPart
    /\ UNCHANGED <<cbuf, outbox, conn, closed, oneByOne>>

Close ==
    /\ ConnStep
    /\ ~closed
    /\ closed' = TRUE
    /\ UNCHANGED <<inbox, cbuf, outbox, conn, sent, part, oneByOne>>

\* One turn of the loop of handle_connection: the read (which returns once
\* the socket has something to report), then the loop body. The n bytes
\* read overwrite the first n bytes of buf.
HandleConnection ==
    /\ ConnStep
    /\ conn = Running
    /\ inbox /= <<>> \/ closed
    /\ \E ioRead \in BOOLEAN, ioWrite \in BOOLEAN, n \in stream_read(Len(cbuf), Len(inbox)) :
         IF ~ioRead
         THEN /\ conn' = Err(IOError)
              /\ UNCHANGED <<inbox, cbuf, outbox>>
         ELSE LET b == SubSeq(inbox, 1, n) \o SubSeq(cbuf, n + 1, Len(cbuf))
                  o == LoopBody(b, n, ioWrite)
              IN  /\ inbox' = SubSeq(inbox, n + 1, Len(inbox))
                  /\ cbuf' = b
                  /\ outbox' = outbox \o o.written
                  /\ conn' = o.conn
    /\ UNCHANGED <<sent, part, closed, oneByOne>>

Send == \E c \in ConnCmds : SendWhole(c)

SendSplit == \E c \in ConnCmds : \E n \in 1..(Len(Encode(VArray(c))) - 1) : SendPart(c, n)

NextConn == Send \/ SendSplit \/ SendRest \/ Close \/ HandleConnection

SpecConn == InitConn /\ [][NextConn]_vars

\* ---------------------------------------------------------------- claims

\* The latest call was a successful GET of a key that a successful SET named.
GotKey ==
    /\ ioClean
    /\ ret = OkUnit
    /\ IsGet(msg)
    /\ msg[2].s \in DOMAIN lastSet

\* C1: a GET replies with the value of the most recent SET of its key and
\* with no older value; when that SET carried no PX the reply is the value
\* at every later time and the entry holds no expiry, whatever SET came before.
C1_Overwrite ==
    GotKey =>
        LET h == lastSet[msg[2].s]
        IN  /\ written \in {BulkFrame(h.val), NULL}
            /\ ~h.px.some =>
                 /\ written = BulkFrame(h.val)
                 /\ ~store[msg[2].s].expiry.some

\* A SET without PX replaced a SET with PX, and a later GET read the value.
C1_Witness ==
    /\ GotKey
    /\ ~lastSet[msg[2].s].px.some
    /\ lastSet[msg[2].s].replacedPx
    /\ callAt > lastSet[msg[2].s].at
    /\ written = BulkFrame(lastSet[msg[2].s].val)

C2_Inv ==
    (GotKey /\ lastSet[msg[2].s].px.some) =>
        LET h == lastSet[msg[2].s]
        IN  written = IF callAt - h.at < h.px.ms THEN BulkFrame(h.val) ELSE NULL

C2_Step ==
    (/\ ioClean' /\ ret' = OkUnit /\ IsGet(msg')
     /\ msg'[2].s \in DOMAIN lastSet
     /\ lastSet[msg'[2].s].sawNull)
    => written' = NULL

\* C2: after SET k v PX ms at time t, a GET k at time t' replies v when
\* t' - t < ms and the null bulk when t' - t >= ms; and once a GET k has
\* replied null, every GET k replies null until the next SET k.
C2_Expiry == []C2_Inv /\ [][C2_Step]_vars

\* A GET found its key expired strictly after the expiry instant of a
\* positive PX.
C2_Witness ==
    /\ GotKey
    /\ lastSet[msg[2].s].px.some
    /\ lastSet[msg[2].s].px.ms > 0
    /\ callAt - lastSet[msg[2].s].at > lastSet[msg[2].s].px.ms
    /\ written = NULL

\* The bytes of src's encoding, when buf was made from a value.
Encoded == Encode(src.val)

\* C3: parse(buffer, 0) ends with Ok(None), Ok(Some(..)) or Err(..) on every
\* buffer; it never panics.
C3_NeverPanics == pc = "parsed" => res.k \in {"None", "Some", "Err"}

\* C4: decoding the encoding of a value from position 0 returns that value
\* and the length of the encoding.
C4_RoundTrip ==
    (pc = "parsed" /\ src.some /\ buf = Encoded) => res = OkSome(Len(buf), src.val)

\* C5: decoding a strict prefix of a valid encoded message returns Ok(None).
C5_PrefixIsIncomplete ==
    (pc = "parsed" /\ src.some /\ Len(buf) < Len(Encoded)) => res = OkNone

\* C6: a bulk string of declared length n decodes to exactly the n bytes
\* after the length line, whatever they are, and the cursor is just after
\* the terminator that follows them.
C6_BulkIsBinarySafe ==
    (pc = "parsed" /\ src.some /\ src.val.t = "String" /\ Len(buf) >= Len(Encoded))
    => res = OkSome(Len(Encoded), src.val)

\* The latest call named one of the four commands, on a stream that accepts
\* writes.
NamedCommand ==
    /\ ret /= NotRun
    /\ ioClean
    /\ msg /= <<>>
    /\ IsString(msg[1])
    /\ to_lowercase(msg[1].s) \in {ping, echo, get, set}

\* The number of elements the spec allows a command array to have.
ArityAllowed(m) ==
    LET cmd == to_lowercase(m[1].s)
    IN  IF cmd = ping THEN Len(m) = 1
        ELSE IF cmd = set THEN Len(m) \in {3, 5}
        ELSE Len(m) = 2

\* C7: a command array with a number of arguments its command does not take
\* fails with InvalidArguments.
C7_ArityEnforced ==
    (NamedCommand /\ ~ArityAllowed(msg)) => ret = Err(InvalidArguments)

\* C8: a command whose argument is of a variant other than String fails with
\* InvalidArguments, and no call returns success without a reply written.
C8_StringArguments ==
    NamedCommand =>
        /\ (\E i \in 2..Len(msg) : ~IsString(msg[i])) => ret = Err(InvalidArguments)
        /\ ret = OkUnit => written /= <<>>

\* C9: an empty command array, a first element that is no Text, and a name
\* that is no command each fail with InvalidCommand.
C9_InvalidCommand ==
    (/\ ret /= NotRun
     /\ \/ msg = <<>>
        \/ ~IsString(msg[1])
        \/ to_lowercase(msg[1].s) \notin {ping, echo, get, set})
    => ret = Err(InvalidCommand)

CommandErrors == {Err(InvalidCommand), Err(InvalidArguments), Err(ParsingError)}

\* C10: a call of execute that fails with a command error has written no
\* byte and has left the store as it was.
C10_FailureIsClean ==
    [][ret' \in CommandErrors => (store' = store /\ written' = <<>>)]_vars

\* A SET of a key that holds another value failed on its PX argument.
C10_Witness ==
    /\ ret = Err(ParsingError)
    /\ IsSet(msg)
    /\ msg[2].s \in DOMAIN store
    /\ store[msg[2].s].value /= msg[3].s

\* The entries of every key but k are the same in the two stores.
SameElsewhere(st1, st2, k) ==
    /\ DOMAIN st2 \ {k} = DOMAIN st1 \ {k}
    /\ \A j \in DOMAIN st1 \ {k} : st2[j] = st1[j]

\* C11 as stated: only a successful SET changes the store, and only the
\* entry of its own key.
C11_OnlySuccessfulSet ==
    [][store' /= store =>
         /\ IsSet(msg')
         /\ ret' = OkUnit
         /\ SameElsewhere(store, store', msg'[2].s)]_vars

\* C11: PING, ECHO and GET leave the store as it is, whatever the key's
\* state; only a SET that passed validation changes the store (also one
\* whose reply the stream then refuses), and only the entry of its own key.
C11_OnlySetWrites ==
    [][store' /= store =>
         /\ IsSet(msg')
         /\ ret' \in {OkUnit, Err(IOError)}
         /\ msg'[2].s \in DOMAIN store'
         /\ store'[msg'[2].s].value = msg'[3].s
         /\ SameElsewhere(store, store', msg'[2].s)]_vars

\* A SET replaced the entry of one key while another key was in the store.
C11_Witness ==
    /\ ret = OkUnit
    /\ IsSet(msg)
    /\ msg[2].s = KeyK
    /\ ioClean
    /\ lastSet[KeyK].replacedPx
    /\ KeyJ \in DOMAIN store

\* Command array m with its name in lower case, and the flag of a SET too.
Lowered(m) ==
    [i \in 1..Len(m) |->
        IF IsString(m[i]) /\ (i = 1 \/ (i = 4 /\ to_lowercase(m[1].s) = set))
        THEN S(to_lowercase(m[i].s)) ELSE m[i]]

\* C12: both dispatchers match names without regard to case: command of
\* main.rs selects for a command array what it selects for the array with
\* the name in lower case, and execute of parser.rs returns and writes the
\* same for both, the PX flag of SET included.
C12_CaseInsensitive ==
    (arr /= <<>> /\ IsString(arr[1])) =>
        /\ dispatched /= NotRun => dispatched = command(Lowered(arr))
        /\ ret /= NotRun =>
             LET o == execute(Lowered(arr), <<>>, 0, TRUE)
             IN  ret = o.ret /\ written = o.written /\ store = o.store

\* The reply frames the spec allows a successful call of command array m
\* to write, the store being st.
ReplyFrames(m, st) ==
    LET cmd == to_lowercase(m[1].s)
    IN  IF cmd = ping THEN {PONG}
        ELSE IF cmd = set THEN {OK}
        ELSE IF Len(m) < 2 \/ ~IsString(m[2]) THEN {}
        ELSE IF cmd = echo THEN {BulkFrame(m[2].s)}
        ELSE IF m[2].s \in DOMAIN st THEN {BulkFrame(st[m[2].s].value), NULL}
        ELSE {NULL}

\* C13: every successful call wrote exactly one complete reply frame: PING
\* the simple string +PONG, ECHO one bulk frame with the bytes of its
\* argument, GET one bulk frame or the null bulk, SET the simple string +OK.
C13_OneReplyFrame ==
    (NamedCommand /\ ret = OkUnit) => written \in ReplyFrames(msg, store)

\* The replies to the commands of cs, one after the other.
RECURSIVE Replies(_)
Replies(cs) ==
    IF cs = <<>> THEN <<>>
    ELSE (CHOOSE f \in ReplyFrames(Head(cs), <<>>) : TRUE) \o Replies(Tail(cs))

\* C14: when the client writes complete valid commands one after another,
\* each taken whole by its own read, what the handler has written is the
\* replies to the first commands in their order, none skipped and none
\* twice, and once the handler has returned every command is answered.
C14_RepliesInOrder ==
    oneByOne =>
        /\ \E k \in 0..Len(sent) : outbox = Replies(SubSeq(sent, 1, k))
        /\ conn = OkUnit => outbox = Replies(sent)

\* C15: while what the client has written is a strict prefix of a command
\* and it has not shut its side down, the handler keeps the connection
\* open: it is in its loop, waiting to read more, unless the stream itself
\* has failed.
C15_KeepsReading ==
    (sent = <<>> /\ part.some /\ ~closed) => conn \in {Running, Err(IOError)}

\* buf holds the whole encoding of an array (and maybe bytes after it).
WholeArray ==
    /\ pc = "parsed"
    /\ src.some
    /\ src.val.t = "Array"
    /\ Len(buf) >= Len(Encoded)

\* C16: decoding an array that declares n elements returns a list of exactly
\* n elements in wire order, nested arrays included, and the position just
\* after its last element.
C16_ArrayInOrder ==
    WholeArray =>
        /\ res.k = "Some"
        /\ res.val.t = "Array"
        /\ Len(res.val.a) = Len(src.val.a)
        /\ \A i \in 1..Len(src.val.a) : res.val.a[i] = src.val.a[i]
        /\ res.pos = Len(Encoded)

\* buf holds the whole header of an array of at least one element and ends
\* before the last of its elements is complete.
CutInElements ==
    /\ pc = "parsed"
    /\ src.some
    /\ src.val.t = "Array"
    /\ Len(src.val.a) >= 1
    /\ Len(buf) >= Len(Header(STAR, Len(src.val.a)))
    /\ Len(buf) < Len(Encoded)

\* C17: an array whose header is complete and whose buffer ends before all
\* its elements are complete fails with UnexpectedEnd; it returns neither
\* Ok(None) nor a partial list.
C17_UnexpectedEnd == CutInElements => res = Err(UnexpectedEnd)

\* What the spec says a buffer that opens with header h decodes to, where h
\* declares a length n of at most 0.
Declared(marker, n, h) ==
    IF n = 0 - 1
    THEN res = OkSome(Len(h), IF marker = STAR THEN NullArray ELSE NullBulkString)
    ELSE IF n < 0 - 1
    THEN res = Err(IF marker = STAR THEN BadArraySize(n) ELSE BadBulkStringSize(n))
    ELSE IF marker = STAR THEN res = OkSome(Len(h), VArray(<<>>))
    ELSE (Len(buf) >= Len(h) + 2 /\ SubSeq(buf, Len(h) + 1, Len(h) + 2) = CRLF)
         => res = OkSome(Len(h) + 2, VString(<<>>))

\* C18: a declared length of -1 decodes to the null sentinel of its kind, a
\* declared length of 0 to the empty value (no null), and a declared length
\* below -1 is rejected with BadBulkStringSize(n) or BadArraySize(n).
C18_DeclaredLength ==
    pc = "parsed" =>
        \A marker \in {STAR, DOLLAR}, n \in (0 - MaxDeclared)..0 :
            LET h == Header(marker, n)
            IN  (Len(buf) >= Len(h) /\ SubSeq(buf, 1, Len(h)) = h)
                => Declared(marker, n, h)

\* A bulk string that declares length -2 was rejected.
C18_Witness ==
    /\ pc = "parsed"
    /\ buf = Header(DOLLAR, 0 - 2)
    /\ res = Err(BadBulkStringSize(0 - 2))

\* The step is a successful GET that found the entry of its key expired.
GetOfExpired ==
    /\ now' = now
    /\ IsGet(msg')
    /\ ret' = OkUnit
    /\ written' = NULL
    /\ msg'[2].s \in DOMAIN store

C20_CursorInBuffer ==
    (pc = "parsed" /\ res.k = "Some") =>
        /\ 0 < res.pos
        /\ res.pos <= Len(buf)
        /\ res.pos >= 2
        /\ SubSeq(buf, res.pos - 1, res.pos) = CRLF

====
